---- MODULE Spec2Model ----
(***************************************************************************)
(* Model of the Go-Mailing email engine: the MongoDB job store             *)
(* (queue.MongoQueue), the worker pool (workers.EmailWorker) with its      *)
(* dispatcher loop and hourly sweeper, and the TTL index the store         *)
(* creates.                                                                *)
(*                                                                         *)
(* The clock counts units of 24 hours; the zero time.Time and a nil        *)
(* *time.Time are both written 0, and the clock starts at 1.  Error        *)
(* strings are sequences of tokens, strings.Contains is token membership.  *)
(* Every store call either reaches the store (up) or fails with a driver   *)
(* error and changes nothing.                                              *)
(***************************************************************************)
EXTENDS Integers, Sequences, FiniteSets, TLC

\* ---------------------------------------------------------------- bounds
MaxJobs == 2
StoreMaxJobs == 2
OrderMaxJobs == 4
MaxTicks == 2
MaxClaims == 4
StoreMaxClaims == 2

\* ------------------------------------------------------ program constants
StatusPending == "pending"
StatusProcessing == "processing"
StatusSent == "sent"
StatusFailed == "failed"
PriorityHigh == 1
PriorityNormal == 2
PriorityLow == 3
DefaultMaxAttempts == 3
WorkerCount == 2
RetentionHours == 24
TTLSeconds == 86400

VARIABLES jobs, nextId, now, run, claimLog, claims, failedAt, pc, wjob, werr,
          stopChan, ctxDone, stopPc, sweepPc, inflight, resp, stats, smtp, wire,
          message, valid, calls, backoffDelay, svc, stopAgainPc, sleeps

\* the worker pool's stop channel and context, the caller of Stop and the
\* cleanup goroutine; inflight: the jobs workers held when Stop was called
poolVars == <<stopChan, ctxDone, stopPc, sweepPc, inflight>>

\* the EmailService and the callers of its methods, a second caller of
\* Stop, and the sleeps of a worker pool of a configured size
hostVars == <<svc, stopAgainPc, sleeps>>

vars == <<jobs, nextId, now, run, claimLog, claims, failedAt, pc, wjob, werr,
          stopChan, ctxDone, stopPc, sweepPc, inflight, resp, stats, smtp, wire, message, valid, calls, backoffDelay,
          svc, stopAgainPc, sleeps>>

Workers == 0 .. (WorkerCount - 1)
Priorities == {PriorityHigh, PriorityNormal, PriorityLow}
ZeroTime == 0
NoJob == 0
NoClaim == [id |-> NoJob, attempts |-> 0, doc |-> <<>>]
NoError == <<>>
\* the retention window and the TTL in clock units of 24 hours
Retention == RetentionHours \div 24
TTL == TTLSeconds \div (3600 * 24)

\* models.EmailJob as a caller hands it to Enqueue
EmailJob(status, priority, createdAt, scheduledAt, maxAttempts) ==
    [status |-> status, priority |-> priority, attempts |-> 0,
     maxAttempts |-> maxAttempts, createdAt |-> createdAt,
     scheduledAt |-> scheduledAt, processedAt |-> ZeroTime,
     errorMessage |-> NoError, provider |-> "", providerMsgID |-> 0]

\* ------------------------------------------------------------ job store

\* Enqueue: defaults for the unset fields
EnqueueDefaults(job, t) ==
    [job EXCEPT
       !.createdAt = IF @ = ZeroTime THEN t ELSE @,
       !.scheduledAt = IF @ = ZeroTime THEN t ELSE @,
       !.status = IF @ = "" THEN StatusPending ELSE @,
       !.priority = IF @ = 0 THEN PriorityNormal ELSE @,
       !.maxAttempts = IF @ = 0 THEN DefaultMaxAttempts ELSE @]

EligibleAnyStatus(job, t) == job.scheduledAt <= t

EligibleAnyTime(job, t) == job.status \in {StatusPending, StatusFailed}

EligibleOrProcessing(job, t) ==
    /\ job.status \in {StatusPending, StatusFailed, StatusProcessing}
    /\ job.scheduledAt <= t

EligiblePendingOnly(job, t) ==
    /\ job.status = StatusPending
    /\ job.scheduledAt <= t

\* Dequeue: the filter of findOneAndUpdate
Eligible(job, t) ==
    /\ job.status \in {StatusPending, StatusFailed}
    /\ job.scheduledAt <= t

SortsBeforeNewestFirst(a, b) ==
    \/ a.priority < b.priority
    \/ a.priority = b.priority /\ a.createdAt > b.createdAt

\* Dequeue: the sort of findOneAndUpdate (priority asc, created_at asc)
SortsBefore(a, b) ==
    \/ a.priority < b.priority
    \/ a.priority = b.priority /\ a.createdAt < b.createdAt

\* Dequeue: the documents findOneAndUpdate may pick (the first in sort
\* order; documents that compare equal come in an unspecified order)
DequeueCandidates(js, t) ==
    {id \in DOMAIN js :
        /\ Eligible(js[id], t)
        /\ \A o \in DOMAIN js : Eligible(js[o], t) => ~SortsBefore(js[o], js[id])}

DequeueUpdateKeepsStatus(job) == [job EXCEPT !.attempts = @ + 1]

\* Dequeue: the update of findOneAndUpdate
DequeueUpdate(job) ==
    [job EXCEPT !.status = StatusProcessing, !.attempts = @ + 1]

\* Dequeue: whether the call returns an error for a driver result
\* ("doc", "ErrNoDocuments" or "other")
DequeueReturnsError(driver) == driver \notin {"doc", "ErrNoDocuments"}

MarkCompleteUpdateNoTime(job, t, provider, providerMsgID) ==
    [job EXCEPT !.status = StatusSent,
                !.provider = provider, !.providerMsgID = providerMsgID]

\* MarkComplete: the $set of the update
MarkCompleteUpdate(job, t, provider, providerMsgID) ==
    [job EXCEPT !.status = StatusSent, !.processedAt = t,
                !.provider = provider, !.providerMsgID = providerMsgID]

MarkFailedUpdateCountsAttempt(job, t, errorMessage) ==
    [job EXCEPT !.status = StatusFailed, !.errorMessage = errorMessage,
                !.attempts = @ + 1]

\* MarkFailed: the $set of the update
MarkFailedUpdate(job, t, errorMessage) ==
    [job EXCEPT !.status = StatusFailed, !.errorMessage = errorMessage]

CleanupMatchesAnyStatus(job, t, olderThan) ==
    /\ job.processedAt # ZeroTime
    /\ job.processedAt < t - olderThan

\* CleanupOldJobs: the filter of DeleteMany (a document without
\* processed_at does not match $lt)
CleanupMatches(job, t, olderThan) ==
    /\ job.status \in {StatusSent, StatusFailed}
    /\ job.processedAt # ZeroTime
    /\ job.processedAt < t - olderThan

\* the ttl_created_at index: the documents the TTL monitor may delete
TTLExpired(job, t) == job.createdAt + TTL <= t

Without(js, ids) == [id \in (DOMAIN js) \ ids |-> js[id]]

EligibleIds(js, t) == {id \in DOMAIN js : Eligible(js[id], t)}

\* --------------------------------------------------------------- history
\* claims[id]: how many Dequeue calls returned id.  failedAt[id]: when a
\* worker last marked id Failed.  claimLog: the ids Dequeue returned, in
\* order (kept by OrderSpec).  run: the current run of Dequeue calls with
\* nothing else in between (kept by StoreSpec): K jobs eligible at its
\* start, the ids returned, the number of calls (counted up to K + 1),
\* whether a call returned an error, and what the latest call returned.
\* smtp: the SMTP provider (which of the two implementations in the source
\* it is, and its ProviderConfig), once NewSMTPProvider has made it.  wire:
\* what its latest Send gave the server: the strategy, the envelope sender,
\* the From header, the calls made and the error returned.  calls: the
\* provider calls of the latest processJob, each with its result (kept by
\* DispatchSpec).  backoffDelay[w]: the delay worker w sleeps after a
\* throttled attempt (0 when it is not asleep).  wjob[w].doc: the document
\* Dequeue returned to worker w.
NoConfig == <<>>
NoWire == <<>>

\* message: the latest input of createEmailMessage and the text it built
\* (kept by MessageSpec)
NoMessage == <<>>

\* valid: the latest argument of SMTPProvider.ValidateEmail and the error it
\* returned (kept by ValidateSpec)
NoVerdict == <<>>

\* stats: what the latest call of GetQueueStats returned (kept by StatsSpec)
NoStats == <<>>

\* resp: what the latest call of Enqueue or SendEmail gave its caller (kept
\* by IntakeSpec): the job's ID, or no ID and the error
NoResponse == [id |-> NoJob, err |-> NoError]

NoRun == [K |-> 0, ret |-> <<>>, calls |-> 0, errs |-> FALSE, lastRet |-> NoJob]

RunAfterDequeue(r0, js, t, id, err) ==
    LET r == IF r0.calls > 0 THEN r0
             ELSE [NoRun EXCEPT !.K = Cardinality(EligibleIds(js, t))]
    IN [K |-> r.K,
        ret |-> IF id = NoJob THEN r.ret ELSE Append(r.ret, id),
        calls |-> IF r.calls > r.K THEN r.calls ELSE r.calls + 1,
        errs |-> r.errs \/ err,
        lastRet |-> id]

\* the methods of EmailService that begin with ensureInitialized
Callers == {"SendEmail", "GetEmailStatus", "GetStats"}
NoHolder == "free"

\* NewEmailService; mongo: database.MongoDB is not nil; mu: the holder of
\* s.mu; starts: the calls of worker.Start(); pc, ret: each caller's place
\* in ensureInitialized and what it returned
NewEmailService ==
    [initialized |-> FALSE, mongo |-> FALSE, mu |-> NoHolder, starts |-> 0,
     pc |-> [c \in Callers |-> "idle"], ret |-> [c \in Callers |-> "none"]]

\* no worker pool constructed yet
NoPool == [workerCount |-> 0, slept |-> <<>>]

Init ==
    /\ jobs = <<>>
    /\ nextId = 1
    /\ now = 1
    /\ run = NoRun
    /\ claimLog = <<>>
    /\ claims = <<>>
    /\ failedAt = <<>>
    /\ pc = [w \in Workers |-> "loop"]
    /\ wjob = [w \in Workers |-> NoClaim]
    /\ werr = [w \in Workers |-> NoError]
    /\ stopChan = "open"
    /\ ctxDone = FALSE
    /\ stopPc = "idle"
    /\ sweepPc = "run"
    /\ inflight = {}
    /\ resp = NoResponse
    /\ stats = NoStats
    /\ smtp = NoConfig
    /\ wire = NoWire
    /\ message = NoMessage
    /\ valid = NoVerdict
    /\ calls = <<>>
    /\ backoffDelay = [w \in Workers |-> 0]
    /\ svc = NewEmailService
    /\ stopAgainPc = "idle"
    /\ sleeps = NoPool

\* ------------------------------------------------- store operations
\* MongoQueue.Enqueue
EnqueueOp(job, up, bound) ==
    /\ nextId <= bound
    /\ IF up
       THEN /\ jobs' = jobs @@ (nextId :> EnqueueDefaults(job, now))
            /\ nextId' = nextId + 1
            /\ claims' = claims @@ (nextId :> 0)
            /\ failedAt' = failedAt @@ (nextId :> ZeroTime)
       ELSE UNCHANGED <<jobs, nextId, claims, failedAt>>

\* MongoQueue.Dequeue; id = NoJob when the call returns no job
DequeueOp(id, up, maxClaims) ==
    /\ IF up /\ DequeueCandidates(jobs, now) # {}
       THEN /\ id \in DequeueCandidates(jobs, now)
            /\ jobs[id].attempts < maxClaims
            /\ jobs' = [jobs EXCEPT ![id] = DequeueUpdate(@)]
            /\ claims' = [claims EXCEPT ![id] = @ + 1]
       ELSE /\ id = NoJob
            /\ UNCHANGED <<jobs, claims>>
    /\ UNCHANGED nextId

\* MongoQueue.MarkComplete (UpdateOne by _id; no match is not an error)
MarkCompleteOp(id, provider, providerMsgID, up) ==
    /\ IF up /\ id \in DOMAIN jobs
       THEN jobs' = [jobs EXCEPT ![id] = MarkCompleteUpdate(@, now, provider, providerMsgID)]
       ELSE UNCHANGED jobs
    /\ UNCHANGED <<nextId, claims>>

\* MongoQueue.MarkFailed (UpdateOne by _id; no match is not an error)
MarkFailedOp(id, errorMessage, up) ==
    /\ IF up /\ id \in DOMAIN jobs
       THEN jobs' = [jobs EXCEPT ![id] = MarkFailedUpdate(@, now, errorMessage)]
       ELSE UNCHANGED jobs
    /\ UNCHANGED <<nextId, claims>>

\* MongoQueue.CleanupOldJobs
CleanupOp(olderThan, up) ==
    /\ IF up
       THEN jobs' = Without(jobs, {id \in DOMAIN jobs : CleanupMatches(jobs[id], now, olderThan)})
       ELSE UNCHANGED jobs
    /\ UNCHANGED <<nextId, claims>>

\* the clock advances
Tick ==
    /\ now <= MaxTicks
    /\ now' = now + 1
    /\ run' = NoRun
    /\ UNCHANGED <<jobs, nextId, claimLog, claims, failedAt, pc, wjob, werr, poolVars, resp, stats, smtp, wire, message, valid, calls, backoffDelay, hostVars>>

\* the TTL monitor deletes one expired document
TTLExpire(id) ==
    /\ id \in DOMAIN jobs
    /\ TTLExpired(jobs[id], now)
    /\ jobs' = Without(jobs, {id})
    /\ UNCHANGED <<nextId, now, run, claimLog, claims, failedAt, pc, wjob, werr, poolVars, resp, stats, smtp, wire, message, valid, calls, backoffDelay, hostVars>>

\* ------------------------------------------- the job store driven directly
ErrorTexts == {<<"boom">>}
CleanupWindows == {0, Retention}
StorePriorities == {0, PriorityHigh}

StoreEnqueue ==
    \E prio \in StorePriorities, sched \in {ZeroTime, now + 1}, up \in BOOLEAN :
        /\ EnqueueOp(EmailJob("", prio, ZeroTime, sched, 0), up, StoreMaxJobs)
        /\ run' = NoRun
        /\ UNCHANGED <<now, claimLog, pc, wjob, werr, poolVars, resp, stats, smtp, wire, message, valid, calls, backoffDelay, hostVars>>

StoreDequeue ==
    \E id \in DOMAIN jobs \cup {NoJob}, up \in BOOLEAN :
        /\ DequeueOp(id, up, StoreMaxClaims)
        /\ run' = IF up
                  THEN RunAfterDequeue(run, jobs, now, id,
                           DequeueReturnsError(IF id = NoJob THEN "ErrNoDocuments" ELSE "doc"))
                  ELSE NoRun
        /\ UNCHANGED <<now, claimLog, failedAt, pc, wjob, werr, poolVars, resp, stats, smtp, wire, message, valid, calls, backoffDelay, hostVars>>

\* the provider names createProviders can give a provider
StoreProviders == {"smtp", "dummy"}

StoreMarkCompleteCall(id, provider, providerMsgID, up) ==
    /\ MarkCompleteOp(id, provider, providerMsgID, up)
    /\ run' = NoRun
    /\ UNCHANGED <<now, claimLog, failedAt, pc, wjob, werr, poolVars, resp, stats, smtp, wire, message, valid, calls, backoffDelay, hostVars>>

StoreMarkComplete ==
    \E id \in 1 .. (nextId - 1), provider \in StoreProviders, up \in BOOLEAN :
        StoreMarkCompleteCall(id, provider, now, up)

StoreMarkFailed ==
    \E id \in 1 .. (nextId - 1), msg \in ErrorTexts, up \in BOOLEAN :
        /\ MarkFailedOp(id, msg, up)
        /\ run' = NoRun
        /\ UNCHANGED <<now, claimLog, failedAt, pc, wjob, werr, poolVars, resp, stats, smtp, wire, message, valid, calls, backoffDelay, hostVars>>

StoreCleanupCall(d, up) ==
    /\ CleanupOp(d, up)
    /\ run' = NoRun
    /\ UNCHANGED <<now, claimLog, failedAt, pc, wjob, werr, poolVars, resp, stats, smtp, wire, message, valid, calls, backoffDelay, hostVars>>

StoreCleanup == \E d \in CleanupWindows, up \in BOOLEAN : StoreCleanupCall(d, up)

StoreNext ==
    \/ StoreEnqueue
    \/ StoreDequeue
    \/ StoreMarkComplete
    \/ StoreMarkFailed
    \/ StoreCleanup
    \/ Tick

StoreSpec == Init /\ [][StoreNext]_vars

\* ------------------------------------------------------ queue statistics
\* GetQueueStats: the $group stage, one <<status, count>> per status present
GroupByStatus(js) ==
    {<<st, Cardinality({id \in DOMAIN js : js[id].status = st})>> :
        st \in {js[id].status : id \in DOMAIN js}}

\* GetQueueStats: the field the switch sets from the group of status st
\* (left at zero when there is no such group)
CountOf(groups, st) ==
    IF \E g \in groups : g[1] = st
    THEN (CHOOSE g \in groups : g[1] = st)[2]
    ELSE 0

GetQueueStatsQueuedIsPending(js) ==
    LET groups == GroupByStatus(js) IN
    [PendingCount |-> CountOf(groups, StatusPending),
     ProcessingCount |-> CountOf(groups, StatusProcessing),
     TotalSent |-> CountOf(groups, StatusSent),
     TotalFailed |-> CountOf(groups, StatusFailed),
     TotalQueued |-> CountOf(groups, StatusPending),
     QueueSize |-> CountOf(groups, StatusPending)]

\* MongoQueue.GetQueueStats: the EmailStats it returns
GetQueueStats(js) ==
    LET groups == GroupByStatus(js) IN
    [PendingCount |-> CountOf(groups, StatusPending),
     ProcessingCount |-> CountOf(groups, StatusProcessing),
     TotalSent |-> CountOf(groups, StatusSent),
     TotalFailed |-> CountOf(groups, StatusFailed),
     TotalQueued |-> CountOf(groups, StatusPending) + CountOf(groups, StatusProcessing),
     QueueSize |-> CountOf(groups, StatusPending)]

\* GetQueueStats called; stats stays as it was when Aggregate fails
GetStatsCall(up) ==
    /\ stats' = IF up THEN GetQueueStats(jobs) ELSE stats
    /\ UNCHANGED <<jobs, nextId, now, run, claimLog, claims, failedAt, pc, wjob, werr,
                   poolVars, resp, smtp, wire, message, valid, calls, backoffDelay, hostVars>>

StatsGetStats == \E up \in BOOLEAN : GetStatsCall(up)

StatsNext ==
    \/ StoreEnqueue
    \/ StoreDequeue
    \/ StoreMarkComplete
    \/ StoreMarkFailed
    \/ StatsGetStats

StatsSpec == Init /\ [][StatsNext]_vars

\* ------------------------------------------------- jobs entering the store
IntakeMaxJobs == 1

\* the fields a caller of Enqueue may have set in the job
IntakeStatuses == {"", StatusPending, StatusSent}
IntakePriorities == {0, PriorityHigh, PriorityLow}
IntakeMaxAttempts == {0, 5}

\* Enqueue: the error it wraps a driver error in
EnqueueError == <<"failed to enqueue email:", "store unavailable">>

\* MongoQueue.Enqueue called with an arbitrary job; the caller reads the ID
\* from the job it passed
EnqueueCall(job, up) ==
    /\ EnqueueOp(job, up, IntakeMaxJobs)
    /\ resp' = IF up THEN [id |-> nextId, err |-> NoError]
                     ELSE [id |-> NoJob, err |-> EnqueueError]
    /\ UNCHANGED <<now, run, claimLog, pc, wjob, werr, poolVars, stats, smtp, wire, message, valid, calls, backoffDelay, hostVars>>

IntakeEnqueue ==
    \E status \in IntakeStatuses, prio \in IntakePriorities,
       created \in {ZeroTime, now}, sched \in {ZeroTime, now + 1},
       maxAttempts \in IntakeMaxAttempts, up \in BOOLEAN :
        EnqueueCall(EmailJob(status, prio, created, sched, maxAttempts), up)

\* strings are sequences of characters here
Count(str, ch) == Cardinality({i \in 1 .. Len(str) : str[i] = ch})

\* strings.Split(email, "@") when it gives two parts
SplitAt(str, ch) ==
    LET at == CHOOSE i \in 1 .. Len(str) : str[i] = ch
    IN <<SubSeq(str, 1, at - 1), SubSeq(str, at + 1, Len(str))>>

ValidateEmailAcceptsAll(email) == NoError

ValidateEmailAnyDomain(email) ==
    IF email = <<>> THEN <<"email address is empty">>
    ELSE IF Count(email, "@") = 0
    THEN <<"invalid email format: missing @ symbol">>
    ELSE IF Count(email, "@") + 1 # 2
    THEN <<"invalid email format: multiple @ symbols">>
    ELSE LET parts == SplitAt(email, "@") IN
         IF parts[1] = <<>> \/ parts[2] = <<>>
         THEN <<"invalid email format: empty local or domain part">>
         ELSE NoError

\* SMTPProvider.ValidateEmail: the error it returns, NoError for nil
ValidateEmail(email) ==
    IF email = <<>> THEN <<"email address is empty">>
    ELSE IF Count(email, "@") = 0
    THEN <<"invalid email format: missing @ symbol">>
    ELSE IF Count(email, "@") + 1 # 2
    THEN <<"invalid email format: multiple @ symbols">>
    ELSE LET parts == SplitAt(email, "@") IN
         IF parts[1] = <<>> \/ parts[2] = <<>>
         THEN <<"invalid email format: empty local or domain part">>
         ELSE IF Count(parts[2], ".") = 0
         THEN <<"invalid email format: domain must contain a dot">>
         ELSE NoError

\* contains(s, substr) of the dummy provider, for a substr of one character
RECURSIVE DummyContains(_, _)
DummyContains(str, ch) ==
    /\ Len(str) >= 1
    /\ \/ str = <<ch>>
       \/ /\ Len(str) > 1
          /\ \/ str[1] = ch
             \/ str[Len(str)] = ch
             \/ DummyContains(SubSeq(str, 2, Len(str) - 1), ch)

\* DummyProvider.ValidateEmail
DummyValidateEmail(email) ==
    IF email = <<>> THEN <<"email address is empty">>
    ELSE IF ~DummyContains(email, "@") THEN <<"invalid email format">>
    ELSE NoError

ProviderValidateEmail(name, email) ==
    IF name = "dummy" THEN DummyValidateEmail(email) ELSE ValidateEmail(email)

\* validateSendRequest: the loop over the providers
RECURSIVE ValidateFormats(_, _, _)
ValidateFormats(names, i, req) ==
    IF i > Len(names) THEN NoError
    ELSE IF ProviderValidateEmail(names[i], req.to) # NoError
    THEN <<"invalid recipient email:">> \o ProviderValidateEmail(names[i], req.to)
    ELSE IF ProviderValidateEmail(names[i], req.from) # NoError
    THEN <<"invalid sender email:">> \o ProviderValidateEmail(names[i], req.from)
    ELSE ValidateFormats(names, i + 1, req)

\* validateSendRequest
ValidateSendRequest(names, req) ==
    IF req.to = <<>> THEN <<"recipient email is required">>
    ELSE IF req.subject = <<>> THEN <<"subject is required">>
    ELSE IF req.html = <<>> THEN <<"HTML content is required">>
    ELSE IF req.from = <<>> THEN <<"sender email is required">>
    ELSE IF ValidateFormats(names, 1, req) # NoError
    THEN ValidateFormats(names, 1, req)
    ELSE IF req.priority < 1 \/ req.priority > 3
    THEN <<"priority must be between 1 and 3">>
    ELSE NoError

\* the requests submitted
GoodAddress == <<"a", "@", "b", ".", "c">>
Recipients ==
    {<<>>, GoodAddress, <<"a", "b">>, <<"a", "@", "b">>, <<"@", "b", ".", "c">>,
     <<"a", "@", "@", "b", ".", "c">>}
Senders == {<<>>, GoodAddress, <<"b", ".", "c">>}
Texts == {<<>>, <<"x">>}
GoodRequest ==
    [to |-> GoodAddress, subject |-> <<"x">>, html |-> <<"x">>,
     from |-> GoodAddress, priority |-> PriorityNormal]
\* a good request, and the requests that differ from it in one field
Requests ==
    {[GoodRequest EXCEPT !.to = t] : t \in Recipients}
    \cup {[GoodRequest EXCEPT !.from = f] : f \in Senders}
    \cup {[GoodRequest EXCEPT !.subject = t] : t \in Texts}
    \cup {[GoodRequest EXCEPT !.html = t] : t \in Texts}
    \cup {[GoodRequest EXCEPT !.priority = q] : q \in 0 .. 4}

\* EmailService.SendEmail of an initialized service whose providers are
\* names
SendEmailCall(names, req, up) ==
    /\ IF ValidateSendRequest(names, req) # NoError
       THEN /\ resp' = [id |-> NoJob, err |-> ValidateSendRequest(names, req)]
            /\ UNCHANGED <<jobs, nextId, claims, failedAt>>
       ELSE /\ EnqueueOp(EmailJob(StatusPending, req.priority, now, now, DefaultMaxAttempts),
                         up, IntakeMaxJobs)
            /\ resp' = IF up THEN [id |-> nextId, err |-> NoError]
                             ELSE [id |-> NoJob,
                                   err |-> <<"failed to enqueue email:">> \o EnqueueError]
    /\ UNCHANGED <<now, run, claimLog, pc, wjob, werr, poolVars, stats, smtp, wire, message, valid, calls, backoffDelay, hostVars>>

IntakeSendEmail ==
    \E name \in StoreProviders, req \in Requests, up \in BOOLEAN :
        SendEmailCall(<<name>>, req, up)

IntakeNext ==
    \/ IntakeEnqueue
    \/ IntakeSendEmail
    \/ Tick

IntakeSpec == Init /\ [][IntakeNext]_vars

\* ------------------------------------- enqueue and claim, nothing else
OrderEnqueue ==
    \E prio \in Priorities :
        /\ EnqueueOp(EmailJob(StatusPending, prio, now, now, DefaultMaxAttempts), TRUE, OrderMaxJobs)
        /\ UNCHANGED <<now, run, claimLog, pc, wjob, werr, poolVars, resp, stats, smtp, wire, message, valid, calls, backoffDelay, hostVars>>

OrderDequeue ==
    \E id \in DOMAIN jobs \cup {NoJob} :
        /\ DequeueOp(id, TRUE, StoreMaxClaims)
        /\ claimLog' = IF id = NoJob THEN claimLog ELSE Append(claimLog, id)
        /\ UNCHANGED <<now, run, failedAt, pc, wjob, werr, poolVars, resp, stats, smtp, wire, message, valid, calls, backoffDelay, hostVars>>

OrderNext ==
    \/ OrderEnqueue
    \/ OrderDequeue
    \/ Tick

OrderSpec == Init /\ [][OrderNext]_vars

\* --------------------------------------------------- the SMTP provider
\* the two implementations of SMTPProvider in the source
SMTPSources == {"part_000", "smtp_fixed.go"}
SMTPPorts == {587, 465, 25}
BareFrom == <<"a", "@", "b">>
DisplayFrom == <<"N", " ", "<", "a", "@", "b", ">">>
SMTPFroms ==
    {<<>>, BareFrom, DisplayFrom, <<"<", "a", "@", "b", ">">>, <<">", "a", "<">>,
     <<"N", "<", "a">>, <<"N", ">">>, <<"<", "a", "@", "b", ">", " ", "<", "c", ">">>}
SMTPUsernames == {<<"u", "@", "b">>, <<"u">>}

\* strings.Index(str, ch), counted from 1; 0 when ch does not occur
Index(str, ch) ==
    IF \E i \in 1 .. Len(str) : str[i] = ch
    THEN CHOOSE i \in 1 .. Len(str) : str[i] = ch /\ \A j \in 1 .. (i - 1) : str[j] # ch
    ELSE 0

\* extractEmailAddress
ExtractEmailAddress(from) ==
    IF Index(from, "<") # 0 /\ Index(from, ">") # 0 /\ Index(from, ">") > Index(from, "<")
    THEN SubSeq(from, Index(from, "<") + 1, Index(from, ">") - 1)
    ELSE from

\* Send: the connection strategy the port selects
Strategy(port) ==
    IF port = 587 THEN "STARTTLS" ELSE IF port = 465 THEN "TLS" ELSE "plain"

\* sendWithSTARTTLS, sendWithTLS, sendPlain: the argument of MAIL FROM
MailFrom(source, from) ==
    IF source = "part_000" THEN ExtractEmailAddress(from) ELSE from

\* messages are sequences of tokens: a header name, ": ", the characters
\* of a header value or of the body, with "CR" and "LF" for \r and \n
CRLF == <<"CR", "LF">>

FixedHeadersNoEncoding(from, email) ==
    <<<<"From", from>>, <<"To", email.to>>, <<"Subject", email.subject>>,
      <<"Date", <<"date">>>>, <<"Message-ID", <<"msgid">>>>,
      <<"MIME-Version", <<"1.0">>>>,
      <<"Content-Type", <<"text/html; charset=UTF-8">>>>>>

\* createEmailMessage of part_000: the headers slice
FixedHeaders(from, email) ==
    <<<<"From", from>>, <<"To", email.to>>, <<"Subject", email.subject>>,
      <<"Date", <<"date">>>>, <<"Message-ID", <<"msgid">>>>,
      <<"MIME-Version", <<"1.0">>>>,
      <<"Content-Type", <<"text/html; charset=UTF-8">>>>,
      <<"Content-Transfer-Encoding", <<"8bit">>>>>>

\* createEmailMessage of smtp_fixed.go: the headers map, which range
\* iterates in an order of the runtime's choosing
MapHeaders(from, email) ==
    <<<<"From", from>>, <<"To", email.to>>, <<"Subject", email.subject>>,
      <<"MIME-Version", <<"1.0">>>>,
      <<"Content-Type", <<"text/html; charset=UTF-8">>>>>>

HeaderOrders == Permutations(1 .. 5)

\* fmt.Sprintf("%s: %s\r\n", key, value) for each header in turn
RECURSIVE HeaderLines(_)
HeaderLines(headers) ==
    IF headers = <<>> THEN <<>>
    ELSE <<Head(headers)[1], ": ">> \o Head(headers)[2] \o CRLF
         \o HeaderLines(Tail(headers))

\* strings.ReplaceAll(html, "\n", "\r\n")
RECURSIVE ReplaceLF(_)
ReplaceLF(str) ==
    IF str = <<>> THEN <<>>
    ELSE (IF Head(str) = "LF" THEN CRLF ELSE <<Head(str)>>) \o ReplaceLF(Tail(str))

\* strings.ReplaceAll(body, "\r\r", "\r"): the matches do not overlap
RECURSIVE CollapseCRCR(_)
CollapseCRCR(str) ==
    IF Len(str) < 2 THEN str
    ELSE IF str[1] = "CR" /\ str[2] = "CR"
    THEN <<"CR">> \o CollapseCRCR(SubSeq(str, 3, Len(str)))
    ELSE <<str[1]>> \o CollapseCRCR(Tail(str))

\* strings.HasSuffix(body, "\r\n")
HasSuffixCRLF(str) ==
    Len(str) >= 2 /\ SubSeq(str, Len(str) - 1, Len(str)) = CRLF

\* createEmailMessage of part_000: the body it writes, closing CRLF included
MessageBody(html) ==
    LET body == CollapseCRCR(ReplaceLF(html))
    IN body \o (IF HasSuffixCRLF(body) THEN <<>> ELSE CRLF)

\* createEmailMessage of either implementation
CreateEmailMessage(source, from, email, order) ==
    IF source = "part_000"
    THEN HeaderLines(FixedHeaders(from, email)) \o CRLF \o MessageBody(email.html)
    ELSE HeaderLines([i \in 1 .. 5 |-> MapHeaders(from, email)[order[i]]])
         \o CRLF \o email.html

StrategyStepsAuthFirst(strategy) ==
    IF strategy = "STARTTLS"
    THEN <<"smtp.Dial", "Auth", "StartTLS", "Mail", "Rcpt", "Data", "Write", "Close", "Quit">>
    ELSE IF strategy = "TLS"
    THEN <<"tls.Dial", "smtp.NewClient", "Auth", "Mail", "Rcpt", "Data", "Write", "Close",
           "Quit">>
    ELSE <<"smtp.SendMail">>

\* sendWithSTARTTLS, sendWithTLS, sendPlain: the calls each makes, in order
StrategySteps(strategy) ==
    IF strategy = "STARTTLS"
    THEN <<"smtp.Dial", "StartTLS", "Auth", "Mail", "Rcpt", "Data", "Write", "Close", "Quit">>
    ELSE IF strategy = "TLS"
    THEN <<"tls.Dial", "smtp.NewClient", "Auth", "Mail", "Rcpt", "Data", "Write", "Close",
           "Quit">>
    ELSE <<"smtp.SendMail">>

\* NewSMTPProvider
NewSMTPProvider ==
    /\ smtp = NoConfig
    /\ smtp' \in [source : SMTPSources, SMTPPort : SMTPPorts, SMTPFrom : SMTPFroms,
                   SMTPUsername : SMTPUsernames]
    /\ UNCHANGED <<jobs, nextId, now, run, claimLog, claims, failedAt, pc, wjob, werr,
                   poolVars, resp, stats, wire, message, valid, calls, backoffDelay, hostVars>>

\* SMTPProvider.Send: the default written into the configuration, the
\* strategy and its calls up to the one that fails (failAt = 0: none fails),
\* and the error Send returns; the message it hands to the strategy is
\* CreateEmailMessage, below
SMTPSendCall(failAt) ==
    /\ smtp # NoConfig
    /\ failAt <= Len(StrategySteps(Strategy(smtp.SMTPPort)))
    /\ LET from == IF smtp.SMTPFrom = <<>> THEN smtp.SMTPUsername ELSE smtp.SMTPFrom
           steps == StrategySteps(Strategy(smtp.SMTPPort))
       IN
       /\ smtp' = [smtp EXCEPT !.SMTPFrom = from]
       /\ wire' = [strategy |-> Strategy(smtp.SMTPPort),
                   mailFrom |-> MailFrom(smtp.source, from),
                   headerFrom |-> from,
                   steps |-> IF failAt = 0 THEN steps ELSE SubSeq(steps, 1, failAt),
                   err |-> IF failAt = 0 THEN NoError
                           ELSE <<"SMTP send failed:", steps[failAt]>>]
    /\ UNCHANGED <<jobs, nextId, now, run, claimLog, claims, failedAt, pc, wjob, werr,
                   poolVars, resp, stats, message, valid, calls, backoffDelay, hostVars>>

SMTPSend ==
    \E failAt \in 0 .. 9 : SMTPSendCall(failAt)

SMTPNext ==
    \/ NewSMTPProvider
    \/ SMTPSend

SMTPSpec == Init /\ [][SMTPNext]_vars

\* ------------------------------------------------- address validation
MaxAddressLen == 5

\* every string of up to MaxAddressLen characters
Addresses == UNION {[1 .. n -> {"a", "@", "."}] : n \in 0 .. MaxAddressLen}

\* SMTPProvider.ValidateEmail called with an address
ValidateEmailCall(email) ==
    /\ valid' = [email |-> email, err |-> ValidateEmail(email)]
    /\ UNCHANGED <<jobs, nextId, now, run, claimLog, claims, failedAt, pc, wjob, werr,
                   poolVars, resp, stats, smtp, wire, message, calls, backoffDelay, hostVars>>

ValidateNext == \E email \in Addresses : ValidateEmailCall(email)

ValidateSpec == Init /\ [][ValidateNext]_vars

\* ------------------------------------------------ the messages Send builds
MaxBodyLen == 3

\* every body of up to MaxBodyLen characters
Bodies == UNION {[1 .. n -> {"<p>hi</p>", "CR", "LF"}] : n \in 0 .. MaxBodyLen}
Subjects == {<<"s">>, <<"s", "CR", "LF", "CR", "LF", "s">>}
Emails == [to : {<<"t">>}, subject : Subjects, html : Bodies]

\* createEmailMessage applied to an email by a provider of either
\* implementation
CreateEmailMessageCall(source, from, email, order) ==
    /\ message' = [source |-> source, from |-> from, email |-> email,
                   text |-> CreateEmailMessage(source, from, email, order)]
    /\ UNCHANGED <<jobs, nextId, now, run, claimLog, claims, failedAt, pc, wjob, werr,
                   poolVars, resp, stats, smtp, wire, valid, calls, backoffDelay, hostVars>>

MessageCreate ==
    /\ message = NoMessage
    /\ \E source \in SMTPSources, from \in {BareFrom, DisplayFrom}, email \in Emails,
          order \in HeaderOrders :
           CreateEmailMessageCall(source, from, email, order)

MessageNext == MessageCreate

MessageSpec == Init /\ [][MessageNext]_vars

\* ---------------------------------------------------- the worker pool
\* what one provider does with one job: its ValidateEmail rejects the
\* recipient, or its Send succeeds, fails for good, or is throttled
Outcomes == {"ok", "invalid", "perm", "throttle"}

\* SendEmail validated the recipient with the same providers, so a queued
\* job passes ValidateEmail
SendOutcomes == Outcomes \ {"invalid"}

\* createProviders: the one provider of a deployment
Providers == <<"smtp">>

Contains(err, token) == \E i \in 1 .. Len(err) : err[i] = token

\* processJob: lastError after provider name answered with outcome o
ProviderError(name, o) ==
    IF o = "invalid"
    THEN <<"email validation failed:", "invalid email format">>
    ELSE <<"provider", name, "failed:", "SMTP send failed:">>
         \o (IF o = "throttle" THEN <<"454", "Too many login attempts">> ELSE <<"535">>)

\* processJob: the provider loop from provider i on, up to the first Send
\* that succeeds; log: the provider calls made so far, each with its result
RECURSIVE ProcessJobFrom(_, _, _, _, _)
ProcessJobFrom(names, i, outs, lastError, log) ==
    IF i > Len(names)
    THEN [sent |-> FALSE, provider |-> "",
          err |-> <<"all providers failed to send email:">> \o lastError, calls |-> log]
    ELSE IF outs[i] = "invalid"
         THEN ProcessJobFrom(names, i + 1, outs, ProviderError(names[i], outs[i]),
                             log \o <<<<names[i], "ValidateEmail", "invalid">>>>)
         ELSE IF outs[i] = "ok"
              THEN [sent |-> TRUE, provider |-> names[i], err |-> NoError,
                    calls |-> log \o <<<<names[i], "ValidateEmail", "ok">>,
                                       <<names[i], "Send", "ok">>>>]
              ELSE ProcessJobFrom(names, i + 1, outs, ProviderError(names[i], outs[i]),
                                  log \o <<<<names[i], "ValidateEmail", "ok">>,
                                           <<names[i], "Send", outs[i]>>>>)

ProcessJobLastProvider(names, outs) ==
    [ProcessJobFrom(names, 1, outs, NoError, <<>>) EXCEPT !.provider = names[Len(names)]]

ProcessJobNotAbsorbed(names, outs) ==
    IF outs[1] = "ok"
    THEN ProcessJobFrom(names, 1, outs, NoError, <<>>)
    ELSE [ProcessJobFrom(names, 1, outs, NoError, <<>>) EXCEPT
              !.sent = FALSE,
              !.err = <<"all providers failed to send email:">>
                      \o ProviderError(names[1], outs[1])]

ProcessJobFirstError(names, outs) ==
    IF \E i \in 1 .. Len(names) : outs[i] = "ok"
    THEN ProcessJobFrom(names, 1, outs, NoError, <<>>)
    ELSE [ProcessJobFrom(names, 1, outs, NoError, <<>>) EXCEPT
              !.err = <<"all providers failed to send email:">>
                      \o ProviderError(names[1], outs[1])]

\* processJob up to the MarkComplete call: whether a provider sent the
\* email, which one, the error otherwise, and the provider calls made
ProcessJob(names, outs) == ProcessJobFrom(names, 1, outs, NoError, <<>>)

\* processJob: the error it returns when MarkComplete fails
MarkCompleteError ==
    <<"failed to mark job complete:", "failed to mark job complete:", "store unavailable">>

\* processNextJob: the rate-limiting test on the error text
RateLimitTokens == {"Too many login attempts", "rate limit", "429", "454"}
IsRateLimitNever(err) == FALSE

IsRateLimit(err) == \E token \in RateLimitTokens : Contains(err, token)

\* processNextJob: the backoff, in seconds, the worker sleeps after a
\* throttled attempt
BackoffStepSeconds == 30
BackoffCapSeconds == 300
BackoffSecondsUncapped(attempts) == attempts * BackoffStepSeconds

BackoffSeconds(attempts) ==
    IF attempts * BackoffStepSeconds > BackoffCapSeconds
    THEN BackoffCapSeconds
    ELSE attempts * BackoffStepSeconds

\* the priorities the submitted requests carry
SubmitPriorities == {PriorityHigh, PriorityLow}

\* EmailService.SendEmail with a request that passes validation
Submit(prios, bound) ==
    \E prio \in prios, up \in BOOLEAN :
        /\ EnqueueOp(EmailJob(StatusPending, prio, now, now, DefaultMaxAttempts), up, bound)
        /\ UNCHANGED <<now, run, claimLog, pc, wjob, werr, poolVars, resp, stats, smtp, wire, message, valid, calls, backoffDelay, hostVars>>

SendEmail == Submit(SubmitPriorities, MaxJobs)

StopSignalledNever == FALSE

\* workerRoutine, cleanupRoutine: a case of the select other than default
\* (or the ticker) is ready
StopSignalled == stopChan = "closed" \/ ctxDone

\* workerRoutine: the default case of the select; processNextJob: the
\* Dequeue call and the two early returns
WorkerClaim(w, maxClaims) ==
    /\ pc[w] = "loop"
    /\ ~StopSignalled
    /\ \E id \in DOMAIN jobs \cup {NoJob}, up \in BOOLEAN :
        /\ DequeueOp(id, up, maxClaims)
        /\ IF id = NoJob
           THEN UNCHANGED <<pc, wjob>>
           ELSE /\ pc' = [pc EXCEPT ![w] = "send"]
                /\ wjob' = [wjob EXCEPT ![w] = [id |-> id, attempts |-> jobs'[id].attempts,
                                              doc |-> jobs'[id]]]
    /\ UNCHANGED <<now, run, claimLog, failedAt, werr, poolVars, resp, stats, smtp, wire, message, valid, calls, backoffDelay, hostVars>>

WorkerDequeue(w) == WorkerClaim(w, MaxClaims)

\* processJob with the providers names answering outs: the providers in
\* turn, then MarkComplete
ProcessJobCall(w, names, outs) ==
    /\ pc[w] = "send"
    /\ LET r == ProcessJob(names, outs) IN
       IF r.sent
       THEN \E up \in BOOLEAN :
              /\ MarkCompleteOp(wjob[w].id, r.provider, now, up)
              /\ IF up
                 THEN /\ pc' = [pc EXCEPT ![w] = "loop"]
                      /\ wjob' = [wjob EXCEPT ![w] = NoClaim]
                      /\ UNCHANGED werr
                 ELSE /\ pc' = [pc EXCEPT ![w] = "failed"]
                      /\ werr' = [werr EXCEPT ![w] = MarkCompleteError]
                      /\ UNCHANGED wjob
       ELSE /\ pc' = [pc EXCEPT ![w] = "failed"]
            /\ werr' = [werr EXCEPT ![w] = r.err]
            /\ UNCHANGED <<jobs, nextId, claims, wjob>>
    /\ UNCHANGED <<now, run, claimLog, failedAt, poolVars, resp, stats, smtp, wire, message,
                   valid, backoffDelay, hostVars>>

\* processJob with the provider list of a deployment
WorkerProcessJob(w) ==
    /\ \E outs \in [1 .. Len(Providers) -> SendOutcomes] : ProcessJobCall(w, Providers, outs)
    /\ UNCHANGED calls

WorkerHandleErrorExits(w) ==
    /\ pc[w] = "failed"
    /\ IF IsRateLimit(werr[w])
       THEN /\ pc' = [pc EXCEPT ![w] = "backoff"]
            /\ backoffDelay' = [backoffDelay EXCEPT ![w] = BackoffSeconds(wjob[w].attempts)]
            /\ UNCHANGED <<jobs, nextId, claims, failedAt, wjob>>
       ELSE /\ \E up \in BOOLEAN :
                 /\ MarkFailedOp(wjob[w].id, werr[w], up)
                 /\ failedAt' = IF up /\ wjob[w].id \in DOMAIN jobs
                                THEN [failedAt EXCEPT ![wjob[w].id] = now]
                                ELSE failedAt
                 /\ pc' = [pc EXCEPT ![w] = IF up THEN "loop" ELSE "done"]
            /\ wjob' = [wjob EXCEPT ![w] = NoClaim]
            /\ UNCHANGED backoffDelay
    /\ werr' = [werr EXCEPT ![w] = NoError]
    /\ UNCHANGED <<now, run, claimLog, poolVars, resp, stats, smtp, wire, message, valid, calls, hostVars>>

\* processNextJob: the error branch (back off and return, or MarkFailed)
WorkerHandleError(w) ==
    /\ pc[w] = "failed"
    /\ IF IsRateLimit(werr[w])
       THEN /\ pc' = [pc EXCEPT ![w] = "backoff"]
            /\ backoffDelay' = [backoffDelay EXCEPT ![w] = BackoffSeconds(wjob[w].attempts)]
            /\ UNCHANGED <<jobs, nextId, claims, failedAt, wjob>>
       ELSE /\ \E up \in BOOLEAN :
                 /\ MarkFailedOp(wjob[w].id, werr[w], up)
                 /\ failedAt' = IF up /\ wjob[w].id \in DOMAIN jobs
                                THEN [failedAt EXCEPT ![wjob[w].id] = now]
                                ELSE failedAt
            /\ pc' = [pc EXCEPT ![w] = "loop"]
            /\ wjob' = [wjob EXCEPT ![w] = NoClaim]
            /\ UNCHANGED backoffDelay
    /\ werr' = [werr EXCEPT ![w] = NoError]
    /\ UNCHANGED <<now, run, claimLog, poolVars, resp, stats, smtp, wire, message, valid, calls, hostVars>>

\* processNextJob: time.Sleep(backoffDelay) is over and the error returned
WorkerWake(w) ==
    /\ pc[w] = "backoff"
    /\ pc' = [pc EXCEPT ![w] = "loop"]
    /\ wjob' = [wjob EXCEPT ![w] = NoClaim]
    /\ backoffDelay' = [backoffDelay EXCEPT ![w] = 0]
    /\ UNCHANGED <<jobs, nextId, now, run, claimLog, claims, failedAt, werr, poolVars, resp,
                   stats, smtp, wire, message, valid, calls, hostVars>>

\* cleanupRoutine: one firing of the hourly ticker
SweepCall(up) ==
    /\ sweepPc = "run"
    /\ CleanupOp(Retention, up)
    /\ UNCHANGED <<now, run, claimLog, failedAt, pc, wjob, werr, poolVars, resp, stats, smtp, wire, message, valid, calls, backoffDelay, hostVars>>

Sweep == \E up \in BOOLEAN : SweepCall(up)

Next ==
    \/ SendEmail
    \/ \E w \in Workers : WorkerDequeue(w)
    \/ \E w \in Workers : WorkerProcessJob(w)
    \/ \E w \in Workers : WorkerHandleError(w)
    \/ \E w \in Workers : WorkerWake(w)
    \/ Sweep
    \/ \E id \in DOMAIN jobs : TTLExpire(id)
    \/ Tick

Spec == Init /\ [][Next]_vars

\* ------------------------------------- the dispatcher with two providers
DispatchMaxJobs == 2
DispatchMaxClaims == 3

\* NewEmailWorker: a provider list of more than one provider
DispatchProviders == <<"smtp", "dummy">>

\* processJob with that list, any provider rejecting the recipient or
\* sending, failing or being throttled
DispatchProcessJob(w) ==
    \E outs \in [1 .. Len(DispatchProviders) -> Outcomes] :
        /\ ProcessJobCall(w, DispatchProviders, outs)
        /\ calls' = ProcessJob(DispatchProviders, outs).calls

DispatchNext ==
    \/ Submit({PriorityNormal}, DispatchMaxJobs)
    \/ \E w \in Workers : WorkerClaim(w, DispatchMaxClaims)
    \/ \E w \in Workers : DispatchProcessJob(w)
    \/ \E w \in Workers : WorkerHandleError(w)
    \/ \E w \in Workers : WorkerWake(w)

DispatchSpec == Init /\ [][DispatchNext]_vars

\* --------------------------------------------- one job claimed many times
RetryMaxJobs == 1
RetryMaxClaims == 11

RetryNext ==
    \/ Submit({PriorityNormal}, RetryMaxJobs)
    \/ \E w \in Workers : WorkerClaim(w, RetryMaxClaims)
    \/ \E w \in Workers : WorkerProcessJob(w)
    \/ \E w \in Workers : WorkerHandleError(w)
    \/ \E w \in Workers : WorkerWake(w)

RetrySpec == Init /\ [][RetryNext]_vars

\* ------------------------------------------ the worker pool being stopped
StopMaxJobs == 2
StopMaxClaims == 2

\* workerRoutine: the stopChan or ctx.Done() case of the select
WorkerExit(w) ==
    /\ pc[w] = "loop"
    /\ StopSignalled
    /\ pc' = [pc EXCEPT ![w] = "done"]
    /\ UNCHANGED <<jobs, nextId, now, run, claimLog, claims, failedAt, wjob, werr,
                   stopChan, ctxDone, stopPc, sweepPc, inflight, resp, stats, smtp, wire, message, valid, calls, backoffDelay, hostVars>>

\* cleanupRoutine: the stopChan or ctx.Done() case of the select
SweeperExit ==
    /\ sweepPc = "run"
    /\ StopSignalled
    /\ sweepPc' = "done"
    /\ UNCHANGED <<jobs, nextId, now, run, claimLog, claims, failedAt, pc, wjob, werr,
                   stopChan, ctxDone, stopPc, inflight, resp, stats, smtp, wire, message, valid, calls, backoffDelay, hostVars>>

\* Stop: close(w.stopChan)
StopClose ==
    /\ stopPc = "idle"
    /\ stopChan' = "closed"
    /\ stopPc' = "cancel"
    /\ inflight' = {wjob[w].id : w \in {v \in Workers : pc[v] \in {"send", "failed", "backoff"}}}
    /\ UNCHANGED <<jobs, nextId, now, run, claimLog, claims, failedAt, pc, wjob, werr,
                   ctxDone, sweepPc, resp, stats, smtp, wire, message, valid, calls, backoffDelay, hostVars>>

\* Stop: w.cancel()
StopCancel ==
    /\ stopPc = "cancel"
    /\ ctxDone' = TRUE
    /\ stopPc' = "wait"
    /\ UNCHANGED <<jobs, nextId, now, run, claimLog, claims, failedAt, pc, wjob, werr,
                   stopChan, sweepPc, inflight, resp, stats, smtp, wire, message, valid, calls, backoffDelay, hostVars>>

WaitGroupIgnored == TRUE

\* Stop: w.wg.Wait() returns when every goroutine Start added has run
\* its deferred wg.Done()
WaitGroupZero == (\A w \in Workers : pc[w] = "done") /\ sweepPc = "done"

\* Stop: wg.Wait() returns and Stop with it
StopReturn ==
    /\ stopPc = "wait"
    /\ WaitGroupZero
    /\ stopPc' = "returned"
    /\ UNCHANGED <<jobs, nextId, now, run, claimLog, claims, failedAt, pc, wjob, werr,
                   stopChan, ctxDone, sweepPc, inflight, resp, stats, smtp, wire, message, valid, calls, backoffDelay, hostVars>>

StopNext ==
    \/ Submit({PriorityNormal}, StopMaxJobs)
    \/ \E w \in Workers : WorkerClaim(w, StopMaxClaims)
    \/ \E w \in Workers : WorkerProcessJob(w)
    \/ \E w \in Workers : WorkerHandleError(w)
    \/ \E w \in Workers : WorkerWake(w)
    \/ \E w \in Workers : WorkerExit(w)
    \/ Sweep
    \/ SweeperExit
    \/ StopClose
    \/ StopCancel
    \/ StopReturn

StopSpec == Init /\ [][StopNext]_vars

\* every send and store call returns, every goroutine that can run does,
\* and Stop runs on once called
StopFairSpec ==
    /\ StopSpec
    /\ \A w \in Workers : WF_vars(WorkerProcessJob(w))
    /\ \A w \in Workers : WF_vars(WorkerHandleError(w))
    /\ \A w \in Workers : WF_vars(WorkerWake(w))
    /\ \A w \in Workers : WF_vars(WorkerExit(w))
    /\ WF_vars(SweeperExit)
    /\ WF_vars(StopCancel)
    /\ WF_vars(StopReturn)

\* ------------------------------------------------- Stop called again
\* EmailService.Stop, EmailWorker.Stop: a call that reaches
\* close(w.stopChan) when the channel is closed already (after the first
\* call returned, or while it runs); closing a closed channel panics, and
\* no recover is deferred, so the process ends there
StopAgain ==
    /\ stopAgainPc = "idle"
    /\ stopChan = "closed"
    /\ stopAgainPc' = "panic"
    /\ UNCHANGED <<jobs, nextId, now, run, claimLog, claims, failedAt, pc, wjob, werr,
                   poolVars, resp, stats, smtp, wire, message, valid, calls, backoffDelay,
                   svc, sleeps>>

StopTwiceNext ==
    \/ StopNext
    \/ StopAgain

StopTwiceSpec == Init /\ [][StopTwiceNext]_vars

\* ------------------------------------------- the sleeps of an iteration
MaxWorkerCount == 3
ProcessingDelayMs == 100
ErrorDelayMs == 1000

\* how an iteration of the loop ends: Dequeue found no job, the job was
\* delivered, it failed for good, it was throttled, the store failed
IterationOutcomes == {"no job", "success", "permanent", "transient", "store error"}

\* workerRoutine: the sleep after processingDelay
StaggerMs(workerID) == IF workerID = 0 THEN 2000 ELSE 3000

\* workerRoutine: the sleeps of one pass through the default case, in
\* order; processNextJob returns an error for every outcome but "no job"
\* and "success" (the backoff of a throttled job is slept inside it)
IterationSleeps(workerID, outcome) ==
    (IF outcome \in {"no job", "success"} THEN <<>> ELSE <<ErrorDelayMs>>)
        \o <<ProcessingDelayMs, StaggerMs(workerID)>>

\* NewEmailWorker and Start with config.WorkerCount = workerCount
StartPool(workerCount) ==
    /\ sleeps = NoPool
    /\ sleeps' = [workerCount |-> workerCount,
                  slept |-> [w \in 0 .. (workerCount - 1) |-> <<>>]]
    /\ UNCHANGED <<jobs, nextId, now, run, claimLog, claims, failedAt, pc, wjob, werr,
                   poolVars, resp, stats, smtp, wire, message, valid, calls, backoffDelay,
                   svc, stopAgainPc>>

\* workerRoutine: one pass through the default case of worker workerID
Iteration(workerID, outcome) ==
    /\ workerID \in DOMAIN sleeps.slept
    /\ sleeps' = [sleeps EXCEPT !.slept[workerID] =
                      <<outcome>> \o IterationSleeps(workerID, outcome)]
    /\ UNCHANGED <<jobs, nextId, now, run, claimLog, claims, failedAt, pc, wjob, werr,
                   poolVars, resp, stats, smtp, wire, message, valid, calls, backoffDelay,
                   svc, stopAgainPc>>

StaggerNext ==
    \/ \E workerCount \in 1 .. MaxWorkerCount : StartPool(workerCount)
    \/ \E workerID \in 0 .. (MaxWorkerCount - 1), outcome \in IterationOutcomes :
          Iteration(workerID, outcome)

StaggerSpec == Init /\ [][StaggerNext]_vars

\* --------------------------------------- jobs claimed over and over again
StarveMaxJobs == 2

\* the code reads attempts only to compute the backoff, which is the same
\* from this many attempts on: larger counts are not told apart
AttemptsTold == BackoffCapSeconds \div BackoffStepSeconds

\* processNextJob: Dequeue with the store reachable; attempts is counted
\* up to AttemptsTold
WorkerClaimCounted(w) ==
    /\ pc[w] = "loop"
    /\ ~StopSignalled
    /\ \E id \in DequeueCandidates(jobs, now) :
        /\ jobs' = [jobs EXCEPT ![id] =
                       [DequeueUpdate(@) EXCEPT !.attempts =
                           IF @ > AttemptsTold THEN AttemptsTold ELSE @]]
        /\ claims' = [claims EXCEPT ![id] = IF @ < AttemptsTold THEN @ + 1 ELSE @]
        /\ pc' = [pc EXCEPT ![w] = "send"]
        /\ wjob' = [wjob EXCEPT ![w] = [id |-> id, attempts |-> jobs'[id].attempts,
                                      doc |-> jobs'[id]]]
    /\ UNCHANGED <<nextId, now, run, claimLog, failedAt, werr, poolVars, resp, stats, smtp,
                   wire, message, valid, calls, backoffDelay, hostVars>>

StarveNext ==
    \/ Submit(SubmitPriorities, StarveMaxJobs)
    \/ \E w \in Workers : WorkerClaimCounted(w)
    \/ \E w \in Workers : WorkerProcessJob(w)
    \/ \E w \in Workers : WorkerHandleError(w)
    \/ \E w \in Workers : WorkerWake(w)

StarveSpec == Init /\ [][StarveNext]_vars

\* every worker goroutine is scheduled again and again, and every call
\* it makes returns
StarveFairSpec ==
    /\ StarveSpec
    /\ \A w \in Workers : WF_vars(WorkerClaimCounted(w))
    /\ \A w \in Workers : WF_vars(WorkerProcessJob(w))
    /\ \A w \in Workers : WF_vars(WorkerHandleError(w))
    /\ \A w \in Workers : WF_vars(WorkerWake(w))

\* ------------------------------------------ the service being initialized
MutexFreeAlways == TRUE

\* s.mu.Lock() can return
MutexFree == svc.mu = NoHolder

\* a method of the service is called and reaches s.mu.Lock()
CallService(c) ==
    /\ svc.pc[c] = "idle"
    /\ svc' = [svc EXCEPT !.pc[c] = "lock"]
    /\ UNCHANGED <<jobs, nextId, now, run, claimLog, claims, failedAt, pc, wjob, werr,
                   poolVars, resp, stats, smtp, wire, message, valid, calls, backoffDelay,
                   stopAgainPc, sleeps>>

\* ensureInitialized: s.mu.Lock() returns
Lock(c) ==
    /\ svc.pc[c] = "lock"
    /\ MutexFree
    /\ svc' = [svc EXCEPT !.mu = c, !.pc[c] = "check"]
    /\ UNCHANGED <<jobs, nextId, now, run, claimLog, claims, failedAt, pc, wjob, werr,
                   poolVars, resp, stats, smtp, wire, message, valid, calls, backoffDelay,
                   stopAgainPc, sleeps>>

\* ensureInitialized: the tests of s.initialized and database.MongoDB
CheckInitialized(c) ==
    /\ svc.pc[c] = "check"
    /\ svc' = IF svc.initialized
              THEN [svc EXCEPT !.ret[c] = "nil", !.pc[c] = "unlock"]
              ELSE IF ~svc.mongo
              THEN [svc EXCEPT !.ret[c] = "MongoDB not connected", !.pc[c] = "unlock"]
              ELSE [svc EXCEPT !.pc[c] = "start"]
    /\ UNCHANGED <<jobs, nextId, now, run, claimLog, claims, failedAt, pc, wjob, werr,
                   poolVars, resp, stats, smtp, wire, message, valid, calls, backoffDelay,
                   stopAgainPc, sleeps>>

\* ensureInitialized: the queue, the providers and the worker are made,
\* worker.Start() is called and s.initialized set
StartWorker(c) ==
    /\ svc.pc[c] = "start"
    /\ svc' = [svc EXCEPT !.starts = @ + 1, !.initialized = TRUE,
                          !.ret[c] = "nil", !.pc[c] = "unlock"]
    /\ UNCHANGED <<jobs, nextId, now, run, claimLog, claims, failedAt, pc, wjob, werr,
                   poolVars, resp, stats, smtp, wire, message, valid, calls, backoffDelay,
                   stopAgainPc, sleeps>>

\* ensureInitialized: the deferred s.mu.Unlock(), and the return; the
\* method can be called again
Unlock(c) ==
    /\ svc.pc[c] = "unlock"
    /\ svc' = [svc EXCEPT !.mu = NoHolder, !.pc[c] = "idle"]
    /\ UNCHANGED <<jobs, nextId, now, run, claimLog, claims, failedAt, pc, wjob, werr,
                   poolVars, resp, stats, smtp, wire, message, valid, calls, backoffDelay,
                   stopAgainPc, sleeps>>

\* the host program connects the database: database.MongoDB is set
ConnectMongo ==
    /\ ~svc.mongo
    /\ svc' = [svc EXCEPT !.mongo = TRUE]
    /\ UNCHANGED <<jobs, nextId, now, run, claimLog, claims, failedAt, pc, wjob, werr,
                   poolVars, resp, stats, smtp, wire, message, valid, calls, backoffDelay,
                   stopAgainPc, sleeps>>

ServiceNext ==
    \/ \E c \in Callers : CallService(c)
    \/ \E c \in Callers : Lock(c)
    \/ \E c \in Callers : CheckInitialized(c)
    \/ \E c \in Callers : StartWorker(c)
    \/ \E c \in Callers : Unlock(c)
    \/ ConnectMongo

ServiceSpec == Init /\ [][ServiceNext]_vars

\* ------------------------------------------------------------ properties
Claimed(w) == pc[w] \in {"send", "failed", "backoff"}

Distinct(seq) == \A i, j \in 1 .. Len(seq) : i # j => seq[i] # seq[j]

\* C1: two workers never hold the same job at the same time, and a job a
\* worker holds stays Processing (so no other Dequeue can select it) until
\* that worker has called MarkComplete or MarkFailed.
C1_MutualExclusion ==
    /\ \A w1, w2 \in Workers :
         w1 # w2 /\ Claimed(w1) /\ Claimed(w2) => wjob[w1].id # wjob[w2].id
    /\ \A w \in Workers :
         Claimed(w) /\ wjob[w].id \in DOMAIN jobs
             => jobs[wjob[w].id].status = StatusProcessing

\* both workers hold a job at once
C1_Witness ==
    \A w \in Workers : Claimed(w) /\ wjob[w].id \in DOMAIN jobs

\* C2: in a run of Dequeue calls with no other call in between that starts
\* with K eligible jobs, no call returns an error, the returned jobs are
\* pairwise distinct, the first K calls each return a job and every later
\* call returns no job; a call that returns no job changes no job.
C2_ConcurrentDequeue ==
    [][run'.calls > 0 =>
         /\ ~run'.errs
         /\ Distinct(run'.ret)
         /\ Len(run'.ret) <= run'.K
         /\ run'.calls > run'.K => Len(run'.ret) = run'.K
         /\ run'.calls <= run'.K => Len(run'.ret) = run'.calls
         /\ run'.lastRet = NoJob => jobs' = jobs]_vars

\* three calls against two eligible jobs: two jobs returned, one "no job"
C2_Witness ==
    /\ run.K = 2
    /\ run.calls = 3
    /\ Len(run.ret) = 2
    /\ run.lastRet = NoJob

\* C3: a job enters the store Pending and its status changes only along
\* Pending->Processing, Failed->Processing, Processing->Sent and
\* Processing->Failed.
LegalEdges ==
    {<<StatusPending, StatusProcessing>>, <<StatusFailed, StatusProcessing>>,
     <<StatusProcessing, StatusSent>>, <<StatusProcessing, StatusFailed>>}

C3_StatusEdges ==
    [][/\ \A id \in DOMAIN jobs \cap DOMAIN jobs' :
            jobs'[id].status # jobs[id].status
                => <<jobs[id].status, jobs'[id].status>> \in LegalEdges
       /\ \A id \in DOMAIN jobs' \ DOMAIN jobs :
            jobs'[id].status = StatusPending]_vars

\* one job was delivered, another failed, was claimed again and failed again
C3_Witness ==
    \E a, b \in DOMAIN jobs :
        /\ jobs[a].status = StatusSent
        /\ jobs[b].status = StatusFailed
        /\ claims[b] >= 2

\* C4: a job Dequeue returns was Pending or Failed just before the call and
\* its scheduledAt was not later than the time of the call.
C4_ClaimableOnly ==
    [][\A id \in DOMAIN jobs :
          claims'[id] > claims[id] =>
              /\ jobs[id].status \in {StatusPending, StatusFailed}
              /\ jobs[id].scheduledAt <= now]_vars

\* a job scheduled for later was claimed once its time had come, while a
\* Sent and a Processing job were passed over
C4_Witness ==
    \E a, b \in DOMAIN jobs :
        /\ claims[a] = 1
        /\ jobs[a].scheduledAt > jobs[a].createdAt
        /\ jobs[a].status = StatusProcessing
        /\ jobs[b].status = StatusSent
        /\ run.lastRet = a

C6_AttemptsCountClaims ==
    \A id \in DOMAIN jobs : jobs[id].attempts = claims[id]

\* a job was claimed twice and marked Failed twice, another was delivered,
\* and the sweeper and the backoff path have had their chance
C6_Witness ==
    \E a, b \in DOMAIN jobs :
        /\ jobs[a].status = StatusFailed
        /\ jobs[a].attempts = 2
        /\ jobs[b].status = StatusProcessing
        /\ jobs[b].attempts = 2
        /\ \A w \in Workers : ~Claimed(w)

\* C7 (as claimed): after a worker's MarkFailed(id, message) succeeds the
\* job is Failed, its processedAt is the time of the call and its
\* errorMessage is message.
C7_MarkFailedSetsProcessedAt ==
    [][\A w \in Workers :
          (/\ pc[w] = "failed"
           /\ pc'[w] = "loop"
           /\ ~IsRateLimit(werr[w])
           /\ wjob[w].id \in DOMAIN jobs
           /\ MarkFailedOp(wjob[w].id, werr[w], TRUE))
              => LET j == jobs'[wjob[w].id] IN
                 /\ j.status = StatusFailed
                 /\ j.processedAt = now
                 /\ j.errorMessage = werr[w]]_vars

\* C8: CleanupOldJobs(d) deletes exactly the Sent or Failed jobs whose
\* processedAt is earlier than now - d; the other jobs, all Pending and
\* Processing jobs among them, stay in the store unchanged.
C8_CleanupExact ==
    [][\A d \in CleanupWindows :
          StoreCleanupCall(d, TRUE) =>
              /\ DOMAIN jobs' =
                    {id \in DOMAIN jobs :
                        ~(/\ jobs[id].status \in {StatusSent, StatusFailed}
                          /\ jobs[id].processedAt # ZeroTime
                          /\ jobs[id].processedAt < now - d)}
              /\ \A id \in DOMAIN jobs' : jobs'[id] = jobs[id]
              /\ \A id \in DOMAIN jobs :
                    jobs[id].status \in {StatusPending, StatusProcessing}
                        => id \in DOMAIN jobs']_vars

\* a cleanup has removed an old terminal job and left an older job that is
\* still Pending or Processing
C8_Witness ==
    /\ nextId = 3
    /\ DOMAIN jobs = {1}
    /\ jobs[1].status \in {StatusPending, StatusProcessing}
    /\ jobs[1].createdAt + Retention < now

\* C9 (as claimed): once the sweeper has run, no job that a worker marked
\* Failed more than the retention window ago, and that is still Failed, is
\* left in the store.
C9_SweepReclaimsFailed ==
    [][SweepCall(TRUE) =>
          \A id \in DOMAIN jobs' :
              ~(/\ jobs'[id].status = StatusFailed
                /\ failedAt[id] # ZeroTime
                /\ failedAt[id] < now - Retention)]_vars

\* C10 (as claimed): Dequeue never returns a Failed job whose attempts have
\* reached maxAttempts.
C10_AttemptsBounded ==
    [][\A id \in DOMAIN jobs :
          claims'[id] > claims[id] =>
              ~(jobs[id].status = StatusFailed /\ jobs[id].attempts >= jobs[id].maxAttempts)]_vars

\* C11 (as claimed): when a worker is done with a job whose delivery was
\* throttled, the job is Pending or Failed again and its scheduledAt is
\* later than before by the backoff.
C11_TransientRequeues ==
    [][\A w \in Workers :
          (/\ pc[w] = "backoff"
           /\ pc'[w] = "loop"
           /\ wjob[w].id \in DOMAIN jobs)
              => LET id == wjob[w].id IN
                 /\ id \in DOMAIN jobs'
                 /\ jobs'[id].status \in {StatusPending, StatusFailed}
                 /\ backoffDelay[w] > 0
                        => jobs'[id].scheduledAt > jobs[id].scheduledAt]_vars

\* C12 (as claimed): when a worker is done with a job it claimed, every
\* store call it made having reached the store, the job is Sent or Failed.
C12_ClaimTerminated ==
    [][\A w \in Workers :
          (/\ Claimed(w)
           /\ pc'[w] = "loop"
           /\ wjob[w].id \in DOMAIN jobs
           /\ \/ pc[w] = "send" /\ MarkCompleteOp(wjob[w].id, "smtp", now, TRUE)
              \/ pc[w] = "backoff"
              \/ pc[w] = "failed" /\ MarkFailedOp(wjob[w].id, werr[w], TRUE))
              => jobs'[wjob[w].id].status \in {StatusSent, StatusFailed}]_vars

\* the store calls of the worker loops and of the sweeper
PoolStoreCall ==
    \/ \E w \in Workers : WorkerClaim(w, StopMaxClaims)
    \/ \E w \in Workers : WorkerProcessJob(w)
    \/ \E w \in Workers : WorkerHandleError(w)
    \/ Sweep

\* C13: once Stop has returned every worker loop and the sweeper have
\* returned and none of them makes a store call any more; a worker that
\* holds a job never returns before it has finished with the job, so the
\* outcome of an attempt in flight is handled before Stop returns.
C13_StopQuiesces ==
    /\ [](stopPc = "returned"
            => (\A w \in Workers : pc[w] = "done") /\ sweepPc = "done")
    /\ [][stopPc = "returned" => ~PoolStoreCall]_vars
    /\ [][\A w \in Workers : pc'[w] = "done" => pc[w] \in {"loop", "done"}]_vars
    /\ [][\A w \in Workers : pc[w] = "done" => pc'[w] = "done"]_vars

\* Stop has returned after it was called while both workers held a job;
\* one of the two jobs was delivered and the other marked Failed meanwhile
C13_Witness ==
    /\ stopPc = "returned"
    /\ \E a, b \in inflight \cap DOMAIN jobs :
          /\ jobs[a].status = StatusSent
          /\ jobs[b].status = StatusFailed
          /\ jobs[b].attempts = 1

\* C14: if sends and store calls return and the goroutines keep running,
\* Stop, once called, returns; from the moment the stop channel is closed a
\* worker at the head of its loop starts no new iteration, it can only
\* return, and so can the sweeper.
C14_StopTerminates ==
    /\ (stopPc # "idle") ~> (stopPc = "returned")
    /\ [][\A w \in Workers :
            StopSignalled /\ pc[w] = "loop" => pc'[w] \in {"loop", "done"}]_vars
    /\ [][StopSignalled /\ stopPc' = "returned" => sweepPc = "done"]_vars

\* Stop has returned although it was called while a worker was in the
\* middle of an attempt that the provider throttled
C14_Witness ==
    /\ stopPc = "returned"
    /\ \E id \in inflight \cap DOMAIN jobs :
          jobs[id].status = StatusProcessing /\ jobs[id].attempts = 2

\* C15: a Failed job whose scheduledAt has come is claimable again: a
\* Dequeue that reaches the store does not answer "no job" while there is
\* one, and the Dequeue that returns a Failed job leaves it Processing with
\* attempts one higher.
C15_FailedReclaimed ==
    [][/\ (run'.calls > 0 /\ run'.lastRet = NoJob)
            => ~\E id \in DOMAIN jobs :
                  jobs[id].status = StatusFailed /\ jobs[id].scheduledAt <= now
       /\ \A id \in DOMAIN jobs :
            (jobs[id].status = StatusFailed /\ claims'[id] > claims[id])
                => /\ jobs'[id].status = StatusProcessing
                   /\ jobs'[id].attempts = jobs[id].attempts + 1]_vars

\* a job was claimed, marked Failed and has just been claimed again
C15_Witness ==
    \E id \in DOMAIN jobs :
        /\ run.lastRet = id
        /\ jobs[id].status = StatusProcessing
        /\ jobs[id].attempts = 2
        /\ jobs[id].errorMessage # NoError

\* C16: after MarkComplete(id, provider, providerMsgID) has reached the
\* store the job id is Sent, its processedAt is the time of the call, its
\* provider and providerMsgID are the arguments; its other fields and the
\* other jobs are as before.
C16_MarkCompleteSets ==
    [][\A id \in DOMAIN jobs, provider \in StoreProviders :
          StoreMarkCompleteCall(id, provider, now, TRUE) =>
              /\ DOMAIN jobs' = DOMAIN jobs
              /\ jobs'[id].status = StatusSent
              /\ jobs'[id].processedAt = now
              /\ jobs'[id].provider = provider
              /\ jobs'[id].providerMsgID = now
              /\ jobs'[id].attempts = jobs[id].attempts
              /\ jobs'[id].priority = jobs[id].priority
              /\ jobs'[id].createdAt = jobs[id].createdAt
              /\ jobs'[id].scheduledAt = jobs[id].scheduledAt
              /\ \A o \in DOMAIN jobs \ {id} : jobs'[o] = jobs[o]]_vars

\* a job claimed on one day was completed by the dummy provider on a later
\* day
C16_Witness ==
    \E id \in DOMAIN jobs :
        /\ jobs[id].status = StatusSent
        /\ jobs[id].provider = "dummy"
        /\ jobs[id].attempts = 1
        /\ jobs[id].processedAt = now
        /\ jobs[id].processedAt > jobs[id].createdAt

\* C17 (as claimed): after an Enqueue that reached the store the stored job
\* is Pending whatever status the caller put in the job; its priority is
\* Normal, its scheduledAt the time of the call and its maxAttempts the
\* default where the caller gave none; and the caller has its ID.
C17_EnqueueDefaults ==
    [][\A status \in IntakeStatuses, prio \in IntakePriorities,
         created \in {ZeroTime, now}, sched \in {ZeroTime, now + 1},
         maxAttempts \in IntakeMaxAttempts :
          EnqueueCall(EmailJob(status, prio, created, sched, maxAttempts), TRUE) =>
              /\ resp'.id \in DOMAIN jobs' \ DOMAIN jobs
              /\ LET j == jobs'[resp'.id] IN
                 /\ j.status = StatusPending
                 /\ j.priority = IF prio = 0 THEN PriorityNormal ELSE prio
                 /\ j.scheduledAt = IF sched = ZeroTime THEN now ELSE sched
                 /\ j.maxAttempts = IF maxAttempts = 0 THEN DefaultMaxAttempts
                                                       ELSE maxAttempts]_vars

\* a request the claim calls failing validation: a required field is
\* missing, an address has no "@", or the priority is not 1, 2 or 3
Rejectable(req) ==
    \/ <<>> \in {req.to, req.subject, req.html, req.from}
    \/ \A i \in 1 .. Len(req.to) : req.to[i] # "@"
    \/ \A i \in 1 .. Len(req.from) : req.from[i] # "@"
    \/ req.priority \notin 1 .. 3

\* C18: a SendEmail whose request fails validation, or whose Enqueue gets a
\* store error, returns an error and no ID and leaves the jobs in the store
\* as they were; and whenever SendEmail returns an error no job was added.
C18_FailedSubmitNoJob ==
    [][\A name \in StoreProviders, req \in Requests, up \in BOOLEAN :
          SendEmailCall(<<name>>, req, up) =>
              /\ (Rejectable(req) \/ ~up) => resp'.err # NoError
              /\ resp'.err # NoError
                    => jobs' = jobs /\ nextId' = nextId /\ resp'.id = NoJob
              /\ resp'.err = NoError
                    => resp'.id \in DOMAIN jobs' \ DOMAIN jobs]_vars

\* with one job in the store a request with a malformed recipient was
\* turned down
C18_Witness ==
    /\ DOMAIN jobs = {1}
    /\ nextId = 2
    /\ resp.id = NoJob
    /\ Len(resp.err) = 2
    /\ resp.err[1] = "invalid recipient email:"

NumberOf(st) == Cardinality({id \in DOMAIN jobs : jobs[id].status = st})

C20_EnvelopeSender ==
    wire # NoWire =>
        /\ wire.headerFrom = smtp.SMTPFrom
        /\ wire.headerFrom = DisplayFrom => wire.mailFrom = BareFrom
        /\ (\A i \in 1 .. Len(wire.headerFrom) : wire.headerFrom[i] \notin {"<", ">"})
              => wire.mailFrom = wire.headerFrom

\* ---------------------------------------------------------- the message
\* sub occurs in str at position i
OccursAt(sub, str, i) ==
    i + Len(sub) - 1 <= Len(str) /\ SubSeq(str, i, i + Len(sub) - 1) = sub

Occurs(sub, str) == \E i \in 1 .. Len(str) : OccursAt(sub, str, i)

EndsWith(str, sub) ==
    Len(sub) <= Len(str) /\ OccursAt(sub, str, Len(str) - Len(sub) + 1)

HiBody == <<"<p>hi</p>", "LF">>
ContentTypeLine == <<"Content-Type", ": ", "text/html; charset=UTF-8", "CR", "LF">>
EncodingLine == <<"Content-Transfer-Encoding", ": ", "8bit", "CR", "LF">>

C24_ThrottledUntouched ==
    /\ [](\A w \in Workers :
            (pc[w] = "backoff" /\ wjob[w].id \in DOMAIN jobs) =>
                LET j == jobs[wjob[w].id]
                    d == wjob[w].doc
                IN /\ j.status = StatusProcessing
                   /\ j.status = d.status
                   /\ j.attempts = d.attempts
                   /\ j.scheduledAt = d.scheduledAt
                   /\ j.errorMessage = d.errorMessage)
    /\ [][\A w \in Workers :
            (pc[w] = "failed" /\ Contains(werr[w], "454") /\ pc'[w] # "failed")
                => pc'[w] = "backoff" /\ jobs' = jobs]_vars
    /\ [][\A w \in Workers :
            (pc[w] = "backoff" /\ pc'[w] # "backoff") => jobs' = jobs]_vars

\* a worker sleeps on the second attempt of a job whose first attempt was
\* marked Failed
C24_Witness ==
    \E w \in Workers :
        /\ pc[w] = "backoff"
        /\ wjob[w].id \in DOMAIN jobs
        /\ jobs[wjob[w].id].status = StatusProcessing
        /\ jobs[wjob[w].id].attempts = 2
        /\ jobs[wjob[w].id].errorMessage # NoError

\* C25: the delay a worker sleeps after a throttled attempt is
\* min(attempts * 30 s, 300 s), attempts being the number of claims of the
\* job, the current one included: 30 s on the first attempt, 300 s from the
\* tenth on, never zero.
C25_BackoffDelay ==
    \A w \in Workers :
        pc[w] = "backoff" =>
            LET a == wjob[w].attempts
                d == backoffDelay[w]
            IN /\ a = claims[wjob[w].id]
               /\ d = (IF a * 30 < 300 THEN a * 30 ELSE 300)
               /\ a = 1 => d = 30
               /\ a >= 10 => d = 300
               /\ d > 0

C25_Witness ==
    \E w \in Workers :
        /\ pc[w] = "backoff"
        /\ wjob[w].attempts = 11
        /\ backoffDelay[w] = 300

\* ---------------------------------------------------- the dispatcher
IsValidation(c) == c[2] = "ValidateEmail"

SendSucceeded(log) == log # <<>> /\ log[Len(log)][2] = "Send" /\ log[Len(log)][3] = "ok"

\* C26: in one attempt the providers are asked in list order, none is
\* skipped, Send is called only on a provider whose ValidateEmail accepted
\* the recipient, nothing is called after a Send that succeeded, and a job
\* recorded Sent by the attempt carries the name of the provider whose Send
\* succeeded.
C26_ProvidersInOrder ==
    [][\A w \in Workers :
          (pc[w] = "send" /\ pc'[w] # "send") =>
              LET log == calls'
                  validations == SelectSeq(log, IsValidation)
                  id == wjob[w].id
              IN /\ Len(validations) <= Len(DispatchProviders)
                 /\ \A k \in 1 .. Len(validations) :
                        validations[k][1] = DispatchProviders[k]
                 /\ \A k \in 1 .. Len(log) :
                        /\ log[k][2] = "Send"
                              => k > 1 /\ log[k - 1] = <<log[k][1], "ValidateEmail", "ok">>
                        /\ (log[k][2] = "Send" /\ log[k][3] = "ok") => k = Len(log)
                 /\ ~SendSucceeded(log) => Len(validations) = Len(DispatchProviders)
                 /\ (id \in DOMAIN jobs /\ jobs'[id].status = StatusSent)
                        => /\ SendSucceeded(log)
                           /\ jobs'[id].provider = log[Len(log)][1]
                 /\ (id \in DOMAIN jobs /\ SendSucceeded(log) /\ pc'[w] = "loop")
                        => /\ jobs'[id].status = StatusSent
                           /\ jobs'[id].provider = log[Len(log)][1]]_vars

\* the first provider rejected the recipient, the second sent the email
C26_Witness ==
    /\ calls = <<<<"smtp", "ValidateEmail", "invalid">>, <<"dummy", "ValidateEmail", "ok">>,
                 <<"dummy", "Send", "ok">>>>
    /\ \E id \in DOMAIN jobs :
          jobs[id].status = StatusSent /\ jobs[id].provider = "dummy"

\* C27: when a provider fails and a later one sends the email, the failure
\* stays inside processJob: no error of a provider is returned or recorded
\* on the job, and once MarkComplete has reached the store the attempt is a
\* success, the job is Sent and the worker goes on without MarkFailed; the
\* only error processJob can then return is MarkComplete's.
C27_FailureAbsorbed ==
    [][\A w \in Workers :
          (/\ pc[w] = "send"
           /\ pc'[w] # "send"
           /\ SendSucceeded(calls')
           /\ \E k \in 1 .. Len(calls') : calls'[k][3] # "ok") =>
              LET id == wjob[w].id IN
              /\ pc'[w] \in {"loop", "failed"}
              /\ pc'[w] = "failed" => werr'[w] = MarkCompleteError /\ jobs' = jobs
              /\ pc'[w] = "loop" => werr'[w] = NoError
              /\ id \in DOMAIN jobs =>
                    /\ jobs'[id].errorMessage = jobs[id].errorMessage
                    /\ pc'[w] = "loop" => jobs'[id].status = StatusSent]_vars

\* the first provider failed for good, the second sent the email, and the
\* job is Sent with no error on it
C27_Witness ==
    /\ calls = <<<<"smtp", "ValidateEmail", "ok">>, <<"smtp", "Send", "perm">>,
                 <<"dummy", "ValidateEmail", "ok">>, <<"dummy", "Send", "ok">>>>
    /\ \A w \in Workers : pc[w] = "loop"
    /\ \E id \in DOMAIN jobs :
          /\ jobs[id].status = StatusSent
          /\ jobs[id].provider = "dummy"
          /\ jobs[id].attempts = 1
          /\ jobs[id].errorMessage = NoError

\* C28: when no provider sent the email, the error processJob returns is
\* a throttling error exactly when the last provider call was throttled,
\* whatever the earlier calls returned; on a throttling error the worker
\* backs off and writes nothing, on any other it calls MarkFailed.
C28_LastErrorClassifies ==
    /\ [][\A w \in Workers :
            (pc[w] = "send" /\ pc'[w] = "failed" /\ ~SendSucceeded(calls')) =>
                /\ calls' # <<>>
                /\ IsRateLimit(werr'[w]) <=> calls'[Len(calls')][3] = "throttle"]_vars
    /\ [][\A w \in Workers :
            (pc[w] = "failed" /\ pc'[w] # "failed") =>
                IF IsRateLimit(werr[w])
                THEN pc'[w] = "backoff" /\ jobs' = jobs
                ELSE /\ pc'[w] = "loop"
                     /\ \/ MarkFailedOp(wjob[w].id, werr[w], TRUE)
                        \/ MarkFailedOp(wjob[w].id, werr[w], FALSE)]_vars

\* the first provider was throttled, the last failed for good, and the job
\* was marked Failed
C28_Witness ==
    /\ calls = <<<<"smtp", "ValidateEmail", "ok">>, <<"smtp", "Send", "throttle">>,
                 <<"dummy", "ValidateEmail", "ok">>, <<"dummy", "Send", "perm">>>>
    /\ \A w \in Workers : pc[w] = "loop"
    /\ \E id \in DOMAIN jobs :
          /\ jobs[id].status = StatusFailed
          /\ jobs[id].attempts = 1
          /\ ~IsRateLimit(jobs[id].errorMessage)

\* ------------------------------------------------- address validation
\* C23: ValidateEmail returns no error exactly for the addresses that are
\* non-empty, hold exactly one '@', with something before it and something
\* after it, and a '.' somewhere after it; for every other string it returns
\* an error.
C23_ValidateAddress ==
    valid # NoVerdict =>
        LET email == valid.email
            ats == {i \in 1 .. Len(email) : email[i] = "@"}
        IN valid.err = NoError
           <=> /\ email # <<>>
               /\ Cardinality(ats) = 1
               /\ \A i \in ats :
                      /\ i > 1
                      /\ i < Len(email)
                      /\ \E j \in (i + 1) .. Len(email) : email[j] = "."

C23_Witness ==
    /\ valid # NoVerdict
    /\ valid.email = <<"a", "@", "a", ".", "a">>
    /\ valid.err = NoError

\* ---------------------------------------------------- the SMTP session
\* the steps common to ports 587 and 465 once the session is authenticated
AfterAuth == <<"Mail", "Rcpt", "Data", "Write", "Close", "Quit">>

IsPrefix(pre, str) == Len(pre) <= Len(str) /\ SubSeq(str, 1, Len(pre)) = pre

\* C30: the port selects the strategy: 587 runs connect, STARTTLS,
\* authenticate, MAIL FROM, RCPT TO, DATA (write, close), QUIT; 465 runs TLS
\* connect (and the client on it), authenticate, then the same; any other
\* port runs the direct send.  The steps run in that order, authentication
\* on 587 and 465 comes only after TLS is up, a send without error ran every
\* step, and a send with an error stopped at the step that failed.
C30_StrategySteps ==
    wire # NoWire =>
        LET all == IF smtp.SMTPPort = 587
                   THEN <<"smtp.Dial", "StartTLS", "Auth">> \o AfterAuth
                   ELSE IF smtp.SMTPPort = 465
                   THEN <<"tls.Dial", "smtp.NewClient", "Auth">> \o AfterAuth
                   ELSE <<"smtp.SendMail">>
            tls == IF smtp.SMTPPort = 587 THEN "StartTLS" ELSE "tls.Dial"
        IN /\ IsPrefix(wire.steps, all)
           /\ wire.steps # <<>>
           /\ smtp.SMTPPort \in {587, 465} =>
                  \A i \in 1 .. Len(wire.steps) :
                      wire.steps[i] = "Auth" => \E j \in 1 .. (i - 1) : wire.steps[j] = tls
           /\ wire.err = NoError => wire.steps = all
           /\ wire.err # NoError => wire.err[2] = wire.steps[Len(wire.steps)]

C30_Witness ==
    /\ wire # NoWire
    /\ smtp.SMTPPort = 587
    /\ wire.err = <<"SMTP send failed:", "Auth">>
    /\ wire.steps = <<"smtp.Dial", "StartTLS", "Auth">>

\* the position of the first empty line of a message: the first CRLF that
\* is at the start of the text or directly after another CRLF (0: none)
FirstEmptyLine(text) ==
    LET empty == {i \in 1 .. Len(text) :
                     /\ OccursAt(CRLF, text, i)
                     /\ (i = 1 \/ (i > 2 /\ OccursAt(CRLF, text, i - 2)))}
    IN IF empty = {} THEN 0 ELSE CHOOSE i \in empty : \A j \in empty : i <= j

\* C22 (as claimed): every message is the eight header lines From, To,
\* Subject, Date, Message-ID, MIME-Version, Content-Type,
\* Content-Transfer-Encoding in this order, one blank line, and the body; and
\* the first empty line of the message is that blank line.
C22_FixedFraming ==
    message # NoMessage =>
        LET headers == HeaderLines(FixedHeaders(message.from, message.email))
        IN /\ OccursAt(headers, message.text, 1)
           /\ OccursAt(CRLF, message.text, Len(headers) + 1)
           /\ FirstEmptyLine(message.text) = Len(headers) + 1

\* the body part of a message of part_000: what follows the eight header
\* lines and the blank line
BodyPart(m) ==
    LET n == Len(HeaderLines(FixedHeaders(m.from, m.email))) + 2
    IN SubSeq(m.text, n + 1, Len(m.text))

\* every LF directly follows a CR that does not itself follow a CR
EveryLFAfterOneCR(str) ==
    \A i \in 1 .. Len(str) :
        str[i] = "LF" => /\ i > 1 /\ str[i - 1] = "CR"
                         /\ (i > 2 => str[i - 2] # "CR")

\* C29 (as claimed): in the body part of the message every LF is preceded
\* by exactly one CR, no two CRs are adjacent, the body ends with CRLF, and a
\* body that already has CRLF line endings and a closing CRLF is unchanged.
C29_BodyNormalized ==
    (message # NoMessage /\ message.source = "part_000") =>
        LET html == message.email.html
            body == BodyPart(message)
        IN /\ EveryLFAfterOneCR(body)
           /\ ~Occurs(<<"CR", "CR">>, body)
           /\ EndsWith(body, CRLF)
           /\ (/\ EveryLFAfterOneCR(html)
               /\ ~Occurs(<<"CR", "CR">>, html)
               /\ EndsWith(html, CRLF)) => body = html

\* ------------------------------------------------ the provider's state
\* C31 (as claimed): once the provider is constructed no Send writes its
\* configuration.
C31_ProviderReadOnly ==
    [][smtp # NoConfig => smtp' = smtp]_vars

\* C36 (as claimed): once the message was written and the data writer
\* closed without error, Send returns no error, whatever QUIT returns.
C36_AcceptedIsSuccess ==
    (/\ wire # NoWire
     /\ \E i \in 1 .. Len(wire.steps) : wire.steps[i] = "Close"
     /\ wire.err # <<"SMTP send failed:", "Close">>)
        => wire.err = NoError

\* ------------------------------------------------ after a successful Send
\* C34 (as claimed): a worker that holds a job whose Send succeeded and
\* whose MarkComplete returned a store error does not mark the job Failed,
\* and no job on which that error was recorded is ever claimed.
C34_SentNeverFailed ==
    /\ [][\A w \in Workers :
            (/\ pc[w] = "failed"
             /\ werr[w] = MarkCompleteError
             /\ wjob[w].id \in DOMAIN jobs
             /\ wjob[w].id \in DOMAIN jobs')
                => jobs'[wjob[w].id].status # StatusFailed]_vars
    /\ [][\A id \in DOMAIN jobs :
            claims'[id] > claims[id] => jobs[id].errorMessage # MarkCompleteError]_vars

\* C35 (as claimed): a job that leaves the store was Sent or Failed.
C35_OnlyFinishedJobsLeave ==
    [][\A id \in DOMAIN jobs :
          id \notin DOMAIN jobs' => jobs[id].status \in {StatusSent, StatusFailed}]_vars

\* C40 (as claimed): a Sent job carries no errorMessage.
C40_SentHasNoError ==
    \A id \in DOMAIN jobs :
        jobs[id].status = StatusSent => jobs[id].errorMessage = NoError

\* ------------------------------------------------ store errors
\* C39: a worker leaves its loop only on the stop signal; whatever MarkFailed
\* returns, the worker that handled an error which is not a rate limit is
\* back at the top of its loop; and a worker at the top of its loop, with
\* no stop signalled, can claim a job whenever the store holds one to claim.
C39_StoreErrorKeepsWorker ==
    /\ [][\A w \in Workers :
            (pc[w] # "done" /\ pc'[w] = "done") => (pc[w] = "loop" /\ StopSignalled)]_vars
    /\ [][\A w \in Workers :
            (pc[w] = "failed" /\ ~IsRateLimit(werr[w]) /\ pc'[w] # "failed")
                => pc'[w] = "loop"]_vars
    /\ [](\A w \in Workers :
            (/\ pc[w] = "loop"
             /\ ~StopSignalled
             /\ \E id \in DequeueCandidates(jobs, now) : jobs[id].attempts < StopMaxClaims)
                => ENABLED (WorkerClaim(w, StopMaxClaims) /\ pc'[w] = "send"))

\* a job whose MarkComplete met a store error, claimed again afterwards
\* and recorded as Sent
C39_Witness ==
    \E id \in DOMAIN jobs :
        /\ jobs[id].status = StatusSent
        /\ jobs[id].errorMessage = MarkCompleteError
        /\ jobs[id].attempts = 2

\* ------------------------------------------------ Stop called again
\* C38 (as claimed): a second call of Stop does not crash the process.
C38_StopAgainSafe == stopAgainPc # "panic"

\* ------------------------------------------------ the sleeps of an iteration
\* C32 (as claimed): whatever the outcome of an iteration, its last two
\* sleeps are the poll interval and the worker's stagger, and two workers of
\* a pool with different indices have different staggers.
C32_DistinctStagger ==
    /\ \A w \in DOMAIN sleeps.slept :
          sleeps.slept[w] # <<>> =>
              LET n == Len(sleeps.slept[w]) IN
                  /\ sleeps.slept[w][n - 1] = ProcessingDelayMs
                  /\ sleeps.slept[w][n] = StaggerMs(w)
    /\ \A v, w \in DOMAIN sleeps.slept : v # w => StaggerMs(v) # StaggerMs(w)

\* ------------------------------------------------ the service being initialized
\* C37: worker.Start() is called at most once, and exactly once when the
\* service is initialized; a caller that got nil returned with the service
\* initialized; a caller gets the error only when the storage handle is
\* absent, and that call starts nothing and leaves the service
\* uninitialized; and a caller at the test with the handle present and the
\* service uninitialized goes on to start the workers.
C37_StartedOnce ==
    /\ [](svc.starts <= 1)
    /\ [](svc.initialized <=> svc.starts = 1)
    /\ [](\A c \in Callers : svc.ret[c] = "nil" => svc.initialized)
    /\ [][\A c \in Callers :
            (svc.ret[c] # svc'.ret[c] /\ svc'.ret[c] = "MongoDB not connected")
                => (/\ ~svc.mongo
                    /\ svc'.starts = 0
                    /\ ~svc'.initialized)]_vars
    /\ [][\A c \in Callers :
            (svc.pc[c] = "check" /\ svc'.pc[c] # "check" /\ svc.mongo /\ ~svc.initialized)
                => svc'.pc[c] = "start"]_vars

\* one caller was refused for want of the storage handle, a later one
\* started the workers, and a third found the service initialized
C37_Witness ==
    /\ svc.starts = 1
    /\ svc.ret["SendEmail"] = "MongoDB not connected"
    /\ svc.ret["GetStats"] = "nil"
    /\ svc.ret["GetEmailStatus"] = "nil"
    /\ svc.pc["GetEmailStatus"] = "idle"

\* ------------------------------------------------ jobs claimed over and over again
\* C33 (as claimed): under fair scheduling of the workers, a job that is
\* in the store, Pending and eligible is eventually claimed.
C33_NoStarvation ==
    \A id \in 1 .. StarveMaxJobs :
        (id \in DOMAIN jobs /\ jobs[id].status = StatusPending /\ Eligible(jobs[id], now))
            ~> (id \in DOMAIN jobs /\ jobs[id].status # StatusPending)

====
